---- MODULE Spec2Model ----
(***************************************************************************)
(* Model of the magnetic-field interpolation kernel of BFieldCache.cxx:    *)
(* the four variants getB, getBVec, getBAutoVec and getBBothVec, called    *)
(* one after the other on one populated BFieldCache and one query point,   *)
(* with caller-supplied output buffers, as the loop body of                *)
(* getB_test.cxx calls them.                                               *)
(*                                                                         *)
(* Numbers.  A C++ double is modelled by an exact rational <<n, d>> in     *)
(* lowest terms with d > 0, and +, -, *, / by exact rational arithmetic.   *)
(* Rounding is therefore not modelled: what is established here is         *)
(* established for the kernel's formulas evaluated in exact arithmetic.    *)
(*                                                                         *)
(* Angles.  phi, m_phimin, m_phimax are counted in units of 1/8 turn, so   *)
(* that 2*M_PI is the number TwoPi = 8 and cos/sin of a multiple of a      *)
(* quarter turn are the exact values 1, 0, -1; m_invphi is per such unit.  *)
(***************************************************************************)
EXTENDS Integers, Sequences, FiniteSets, TLC

VARIABLES cache, args, pc, B, deriv, loc, std

vars == <<cache, args, pc, B, deriv, loc, std>>

----------------------------------------------------------------------------
(* Exact arithmetic on doubles.                                            *)

Abs(n) == IF n < 0 THEN -n ELSE n

RECURSIVE GCD(_, _)
GCD(a, b) == IF b = 0 THEN a ELSE GCD(b, a % b)

\* The rational n/d in lowest terms with a positive denominator.  A division
\* by zero gives what it gives on doubles: <<1, 0>> and <<-1, 0>> are the
\* infinities and <<0, 0>> is NaN.
Rat(n, d) ==
  LET g == GCD(Abs(n), Abs(d))
      sg == IF d < 0 THEN -1 ELSE 1
  IN IF g = 0 THEN <<0, 0>> ELSE <<(sg * n) \div g, (sg * d) \div g>>

NaN == <<0, 0>>

Finite(a) == a[2] > 0

Num(n) == <<n, 1>>

Zero == Num(0)

One == Num(1)

Plus(a, b) == Rat(a[1] * b[2] + b[1] * a[2], a[2] * b[2])

Minus(a, b) == Rat(a[1] * b[2] - b[1] * a[2], a[2] * b[2])

Times(a, b) == Rat(a[1] * b[1], a[2] * b[2])

\* a / b, b # 0.
Over(a, b) == Rat(a[1] * b[2], a[2] * b[1])

Less(a, b) == a[1] * b[2] < b[1] * a[2]

Greater(a, b) == Less(b, a)

\* C arrays are indexed from 0.
At(arr, i) == arr[i + 1]

\* CxxUtils::vec<double, 2>: elementwise arithmetic on two lanes, a scalar
\* operand being applied to every lane.
VMul(u, v) == <<Times(u[1], v[1]), Times(u[2], v[2])>>

VAdd(u, v) == <<Plus(u[1], v[1]), Plus(u[2], v[2])>>

VScale(k, u) == <<Times(k, u[1]), Times(k, u[2])>>

----------------------------------------------------------------------------
(* The kernel, step by step.                                               *)

\* 2 * M_PI, in units of 1/8 turn.
TwoPi == 8

\* cos and sin of an angle that is a whole number of quarter turns.
Cos(a) ==
  LET q == ((a[1] \div 2) % 4)
  IN CASE q = 0 -> One [] q = 1 -> Zero [] q = 2 -> Num(-1) [] q = 3 -> Zero

Sin(a) ==
  LET q == ((a[1] \div 2) % 4)
  IN CASE q = 0 -> Zero [] q = 1 -> One [] q = 2 -> Zero [] q = 3 -> Num(-1)

\* AdjustPhi without the correction.
AdjustPhi_NoWrap(phi, phimin) == phi

\* make sure phi is inside [m_phimin,m_phimax]
AdjustPhi(phi, phimin) ==
  IF Less(phi, phimin) THEN Plus(phi, Num(TwoPi)) ELSE phi

\* Frac saturated at the faces of the bin.
Frac_Clamped(v, vmin, inv) ==
  LET f == Times(Minus(v, vmin), inv)
  IN IF Less(f, Zero) THEN Zero ELSE IF Less(One, f) THEN One ELSE f

\* fractional position inside this bin: f = (v - min) * inv.
Frac(v, vmin, inv) == Times(Minus(v, vmin), inv)

\* Compl without the 1.
Compl_Negated(f) == Minus(Zero, f)

\* g = 1.0 - f
Compl(f) == Minus(One, f)

\* The six interpolation weights of a call.
Weights(c, z, r, phi) ==
  LET fz == Frac(z, c.zmin, c.invz)
      fr == Frac(r, c.rmin, c.invr)
      fphi == Frac(AdjustPhi(phi, c.phimin), c.phimin, c.invphi)
  IN [fz |-> fz, gz |-> Compl(fz), fr |-> fr, gr |-> Compl(fr),
      fphi |-> fphi, gphi |-> Compl(fphi)]

\* Interp with the r bit and the phi bit of the corner index exchanged
\* (samples 1, 2 and 5, 6 swapped).
Interp_BitsSwapped(field, scale, w) ==
  Times(scale,
    Plus(Times(w.gz,
           Plus(Times(w.gr, Plus(Times(w.gphi, At(field, 0)),
                                 Times(w.fphi, At(field, 2)))),
                Times(w.fr, Plus(Times(w.gphi, At(field, 1)),
                                 Times(w.fphi, At(field, 3)))))),
         Times(w.fz,
           Plus(Times(w.gr, Plus(Times(w.gphi, At(field, 4)),
                                 Times(w.fphi, At(field, 6)))),
                Times(w.fr, Plus(Times(w.gphi, At(field, 5)),
                                 Times(w.fphi, At(field, 7))))))))

\* Interp with fz written for fr in the last line: quadratic in fz.
Interp_FzForFr(field, scale, w) ==
  Times(scale,
    Plus(Times(w.gz,
           Plus(Times(w.gr, Plus(Times(w.gphi, At(field, 0)),
                                 Times(w.fphi, At(field, 1)))),
                Times(w.fr, Plus(Times(w.gphi, At(field, 2)),
                                 Times(w.fphi, At(field, 3)))))),
         Times(w.fz,
           Plus(Times(w.gr, Plus(Times(w.gphi, At(field, 4)),
                                 Times(w.fphi, At(field, 5)))),
                Times(w.fz, Plus(Times(w.gphi, At(field, 6)),
                                 Times(w.fphi, At(field, 7))))))))

\* Scalar trilinear interpolation of one component (field: its 8 samples).
Interp(field, scale, w) ==
  Times(scale,
    Plus(Times(w.gz,
           Plus(Times(w.gr, Plus(Times(w.gphi, At(field, 0)),
                                 Times(w.fphi, At(field, 1)))),
                Times(w.fr, Plus(Times(w.gphi, At(field, 2)),
                                 Times(w.fphi, At(field, 3)))))),
         Times(w.fz,
           Plus(Times(w.gr, Plus(Times(w.gphi, At(field, 4)),
                                 Times(w.fphi, At(field, 5)))),
                Times(w.fr, Plus(Times(w.gphi, At(field, 6)),
                                 Times(w.fphi, At(field, 7))))))))

\* InterpVec with the two lanes of the phi coefficients exchanged.
InterpVec_LanesSwapped(field, scale, w) ==
  LET interpCoeffphi == <<w.fphi, w.gphi>>
      field1 == <<At(field, 0), At(field, 1)>>
      field2 == <<At(field, 2), At(field, 3)>>
      field3 == <<At(field, 4), At(field, 5)>>
      field4 == <<At(field, 6), At(field, 7)>>
      interp1 == VScale(w.gr, VMul(field1, interpCoeffphi))
      interp2 == VScale(w.fr, VMul(field2, interpCoeffphi))
      interp3 == VScale(w.gr, VMul(field3, interpCoeffphi))
      interp4 == VScale(w.fr, VMul(field4, interpCoeffphi))
      interp == VAdd(VScale(w.gz, VAdd(interp1, interp2)),
                     VScale(w.fz, VAdd(interp3, interp4)))
  IN Times(scale, Plus(interp[1], interp[2]))

\* Two-lane trilinear interpolation of one component.
InterpVec(field, scale, w) ==
  LET interpCoeffphi == <<w.gphi, w.fphi>>
      field1 == <<At(field, 0), At(field, 1)>>
      field2 == <<At(field, 2), At(field, 3)>>
      field3 == <<At(field, 4), At(field, 5)>>
      field4 == <<At(field, 6), At(field, 7)>>
      interp1 == VScale(w.gr, VMul(field1, interpCoeffphi))
      interp2 == VScale(w.fr, VMul(field2, interpCoeffphi))
      interp3 == VScale(w.gr, VMul(field3, interpCoeffphi))
      interp4 == VScale(w.fr, VMul(field4, interpCoeffphi))
      interp == VAdd(VScale(w.gz, VAdd(interp1, interp2)),
                     VScale(w.fz, VAdd(interp3, interp4)))
  IN Times(scale, Plus(interp[1], interp[2]))

\* Bzrphi[i] for i = 0, 1, 2 (z, r, phi components), scalar form.
BzrphiScalar(c, w) == [i \in 1..3 |-> Interp(c.field[i], c.scale, w)]

\* Bzrphi[i] for i = 0, 1, 2, two-lane form.
BzrphiVec(c, w) == [i \in 1..3 |-> InterpVec(c.field[i], c.scale, w)]

\* DirCos dividing whenever r >= 0.
DirCos_GeZero(x, y, r, phimin) ==
  IF ~Less(r, Zero)
  THEN LET invr == Over(One, r)
       IN [invr |-> invr, c |-> Times(x, invr), s |-> Times(y, invr),
           divided |-> TRUE]
  ELSE [invr |-> Zero, c |-> Cos(phimin), s |-> Sin(phimin),
        divided |-> FALSE]

\* DirCos with x and y exchanged.
DirCos_XYSwapped(x, y, r, phimin) ==
  IF Greater(r, Zero)
  THEN LET invr == Over(One, r)
       IN [invr |-> invr, c |-> Times(y, invr), s |-> Times(x, invr),
           divided |-> TRUE]
  ELSE [invr |-> Zero, c |-> Cos(phimin), s |-> Sin(phimin),
        divided |-> FALSE]

\* DirCos dividing whenever r is not 0.
DirCos_NonZero(x, y, r, phimin) ==
  IF r # Zero
  THEN LET invr == Over(One, r)
       IN [invr |-> invr, c |-> Times(x, invr), s |-> Times(y, invr),
           divided |-> TRUE]
  ELSE [invr |-> Zero, c |-> Cos(phimin), s |-> Sin(phimin),
        divided |-> FALSE]

\* invr, c, s: from the point when r > 0, else the fallback of the cache.
DirCos(x, y, r, phimin) ==
  IF Greater(r, Zero)
  THEN LET invr == Over(One, r)
       IN [invr |-> invr, c |-> Times(x, invr), s |-> Times(y, invr),
           divided |-> TRUE]
  ELSE [invr |-> Zero, c |-> Cos(phimin), s |-> Sin(phimin),
        divided |-> FALSE]

\* Rotate by the opposite angle.
Rotate_Inverse(Bzrphi, c, s) ==
  <<Plus(Times(At(Bzrphi, 1), c), Times(At(Bzrphi, 2), s)),
    Minus(Times(At(Bzrphi, 2), c), Times(At(Bzrphi, 1), s)),
    At(Bzrphi, 0)>>

\* convert (Bz,Br,Bphi) to (Bx,By,Bz)
Rotate(Bzrphi, c, s) ==
  <<Minus(Times(At(Bzrphi, 1), c), Times(At(Bzrphi, 2), s)),
    Plus(Times(At(Bzrphi, 1), s), Times(At(Bzrphi, 2), c)),
    At(Bzrphi, 0)>>

\* d/dz of one component: the z = zmax face blend minus the z = zmin face blend.
DBdz(field, sz, w) ==
  Times(sz,
    Plus(Times(w.gr,
           Plus(Times(w.gphi, Minus(At(field, 4), At(field, 0))),
                Times(w.fphi, Minus(At(field, 5), At(field, 1))))),
         Times(w.fr,
           Plus(Times(w.gphi, Minus(At(field, 6), At(field, 2))),
                Times(w.fphi, Minus(At(field, 7), At(field, 3)))))))

\* DBdr differencing the samples one phi step apart instead of one r step.
DBdr_PhiPairs(field, sr, w) ==
  Times(sr,
    Plus(Times(w.gz,
           Plus(Times(w.gphi, Minus(At(field, 1), At(field, 0))),
                Times(w.fphi, Minus(At(field, 3), At(field, 2))))),
         Times(w.fz,
           Plus(Times(w.gphi, Minus(At(field, 5), At(field, 4))),
                Times(w.fphi, Minus(At(field, 7), At(field, 6)))))))

\* d/dr of one component.
DBdr(field, sr, w) ==
  Times(sr,
    Plus(Times(w.gz,
           Plus(Times(w.gphi, Minus(At(field, 2), At(field, 0))),
                Times(w.fphi, Minus(At(field, 3), At(field, 1))))),
         Times(w.fz,
           Plus(Times(w.gphi, Minus(At(field, 6), At(field, 4))),
                Times(w.fphi, Minus(At(field, 7), At(field, 5)))))))

\* d/dphi of one component.
DBdphi(field, sphi, w) ==
  Times(sphi,
    Plus(Times(w.gz,
           Plus(Times(w.gr, Minus(At(field, 1), At(field, 0))),
                Times(w.fr, Minus(At(field, 3), At(field, 2))))),
         Times(w.fz,
           Plus(Times(w.gr, Minus(At(field, 5), At(field, 4))),
                Times(w.fr, Minus(At(field, 7), At(field, 6)))))))

\* The three cylindrical partial derivatives of the three components.
CylDerivs(c, w) ==
  LET sz == Times(c.scale, c.invz)
      sr == Times(c.scale, c.invr)
      sphi == Times(c.scale, c.invphi)
  IN [dBdz |-> [j \in 1..3 |-> DBdz(c.field[j], sz, w)],
      dBdr |-> [j \in 1..3 |-> DBdr(c.field[j], sr, w)],
      dBdphi |-> [j \in 1..3 |-> DBdphi(c.field[j], sphi, w)]]

\* A sum of five terms, left to right as the code writes it.
Sum5(a, b, c, d, e) == Plus(Plus(Plus(Plus(a, b), c), d), e)

Neg(a) == Minus(Zero, a)

\* Jacobian with the sign of the B term of deriv[1] reversed.
Jacobian_SignFlipped(dBdz, dBdr, dBdphi, c, s, invr, Bxyz) ==
  LET cc == Times(c, c)
      cs == Times(c, s)
      ss == Times(s, s)
      ccinvr == Times(cc, invr)
      csinvr == Times(cs, invr)
      ssinvr == Times(ss, invr)
      sinvr == Times(s, invr)
      cinvr == Times(c, invr)
  IN << Sum5(Times(cc, At(dBdr, 1)), Neg(Times(cs, At(dBdr, 2))),
             Neg(Times(csinvr, At(dBdphi, 1))), Times(ssinvr, At(dBdphi, 2)),
             Times(sinvr, At(Bxyz, 1))),
        Sum5(Times(cs, At(dBdr, 1)), Neg(Times(ss, At(dBdr, 2))),
             Times(ccinvr, At(dBdphi, 1)), Neg(Times(csinvr, At(dBdphi, 2))),
             Times(cinvr, At(Bxyz, 1))),
        Minus(Times(c, At(dBdz, 1)), Times(s, At(dBdz, 2))),
        Sum5(Times(cs, At(dBdr, 1)), Times(cc, At(dBdr, 2)),
             Neg(Times(ssinvr, At(dBdphi, 1))), Neg(Times(csinvr, At(dBdphi, 2))),
             Neg(Times(sinvr, At(Bxyz, 0)))),
        Sum5(Times(ss, At(dBdr, 1)), Times(cs, At(dBdr, 2)),
             Times(csinvr, At(dBdphi, 1)), Times(ccinvr, At(dBdphi, 2)),
             Times(cinvr, At(Bxyz, 0))),
        Plus(Times(s, At(dBdz, 1)), Times(c, At(dBdz, 2))),
        Minus(Times(c, At(dBdr, 0)), Times(sinvr, At(dBdphi, 0))),
        Plus(Times(s, At(dBdr, 0)), Times(cinvr, At(dBdphi, 0))),
        At(dBdz, 0) >>

\* convert to cartesian coordinates: deriv[0..8], row-major d(B_i)/d(x_j).
Jacobian(dBdz, dBdr, dBdphi, c, s, invr, Bxyz) ==
  LET cc == Times(c, c)
      cs == Times(c, s)
      ss == Times(s, s)
      ccinvr == Times(cc, invr)
      csinvr == Times(cs, invr)
      ssinvr == Times(ss, invr)
      sinvr == Times(s, invr)
      cinvr == Times(c, invr)
  IN << Sum5(Times(cc, At(dBdr, 1)), Neg(Times(cs, At(dBdr, 2))),
             Neg(Times(csinvr, At(dBdphi, 1))), Times(ssinvr, At(dBdphi, 2)),
             Times(sinvr, At(Bxyz, 1))),
        Sum5(Times(cs, At(dBdr, 1)), Neg(Times(ss, At(dBdr, 2))),
             Times(ccinvr, At(dBdphi, 1)), Neg(Times(csinvr, At(dBdphi, 2))),
             Neg(Times(cinvr, At(Bxyz, 1)))),
        Minus(Times(c, At(dBdz, 1)), Times(s, At(dBdz, 2))),
        Sum5(Times(cs, At(dBdr, 1)), Times(cc, At(dBdr, 2)),
             Neg(Times(ssinvr, At(dBdphi, 1))), Neg(Times(csinvr, At(dBdphi, 2))),
             Neg(Times(sinvr, At(Bxyz, 0)))),
        Sum5(Times(ss, At(dBdr, 1)), Times(cs, At(dBdr, 2)),
             Times(csinvr, At(dBdphi, 1)), Times(ccinvr, At(dBdphi, 2)),
             Times(cinvr, At(Bxyz, 0))),
        Plus(Times(s, At(dBdz, 1)), Times(c, At(dBdz, 2))),
        Minus(Times(c, At(dBdr, 0)), Times(sinvr, At(dBdphi, 0))),
        Plus(Times(s, At(dBdr, 0)), Times(cinvr, At(dBdphi, 0))),
        At(dBdz, 0) >>

\* What is left in the locals of a call that computed no derivative.
NoDerivs == [dBdz |-> <<>>, dBdr |-> <<>>, dBdphi |-> <<>>]

\* Kernel computing the Jacobian from what the B buffer held at entry.
Kernel_StaleB(c, w, Bzrphi, a) ==
  LET x == At(a.xyz, 0)
      y == At(a.xyz, 1)
      dc == DirCos(x, y, a.r, c.phimin)
      Bxyz == Rotate(Bzrphi, dc.c, dc.s)
      cyl == IF a.wantDeriv THEN CylDerivs(c, w) ELSE NoDerivs
  IN [B |-> Bxyz,
      deriv |-> IF a.wantDeriv
                THEN Jacobian(cyl.dBdz, cyl.dBdr, cyl.dBdphi,
                              dc.c, dc.s, dc.invr, B)
                ELSE <<>>,
      loc |-> [w |-> w, Bzrphi |-> Bzrphi, invr |-> dc.invr, c |-> dc.c,
               s |-> dc.s, divided |-> dc.divided, dBdz |-> cyl.dBdz,
               dBdr |-> cyl.dBdr, dBdphi |-> cyl.dBdphi]]

\* One run of a kernel body from its entry to its return: the values written
\* to B, to deriv (<<>> when deriv is null: nothing is written) and the locals.
\* Bzrphi is the interpolation of the variant (scalar or two-lane).
Kernel(c, w, Bzrphi, a) ==
  LET x == At(a.xyz, 0)
      y == At(a.xyz, 1)
      dc == DirCos(x, y, a.r, c.phimin)
      Bxyz == Rotate(Bzrphi, dc.c, dc.s)
      cyl == IF a.wantDeriv THEN CylDerivs(c, w) ELSE NoDerivs
  IN [B |-> Bxyz,
      deriv |-> IF a.wantDeriv
                THEN Jacobian(cyl.dBdz, cyl.dBdr, cyl.dBdphi,
                              dc.c, dc.s, dc.invr, Bxyz)
                ELSE <<>>,
      loc |-> [w |-> w, Bzrphi |-> Bzrphi, invr |-> dc.invr, c |-> dc.c,
               s |-> dc.s, divided |-> dc.divided, dBdz |-> cyl.dBdz,
               dBdr |-> cyl.dBdr, dBdphi |-> cyl.dBdphi]]

\* existing method
getB(c, a) ==
  LET w == Weights(c, At(a.xyz, 2), a.r, a.phi)
  IN Kernel(c, w, BzrphiScalar(c, w), a)

\* Explicitly vectorized version
getBVec(c, a) ==
  LET w == Weights(c, At(a.xyz, 2), a.r, a.phi)
  IN Kernel(c, w, BzrphiVec(c, w), a)

\* Auto vectorized version
getBAutoVec(c, a) ==
  LET w == Weights(c, At(a.xyz, 2), a.r, a.phi)
  IN Kernel(c, w, BzrphiScalar(c, w), a)

\* Both auto vectorized and use vector version
getBBothVec(c, a) ==
  LET w == Weights(c, At(a.xyz, 2), a.r, a.phi)
  IN Kernel(c, w, BzrphiVec(c, w), a)

----------------------------------------------------------------------------
(* The caches and the queries the kernel is run on.                        *)

\* Bounds of the query coordinates.
MaxZ == 2

MaxR == 3

MaxX == 1

\* A populated cache: the bounds of one cell, the reciprocal bin widths, the
\* scale and the 3 x 8 corner samples.
MakeCache(zmin, zmax, rmin, rmax, phimin, phimax, scale, field) ==
  [zmin |-> zmin, zmax |-> zmax, rmin |-> rmin, rmax |-> rmax,
   phimin |-> phimin, phimax |-> phimax,
   invz |-> Over(One, Minus(zmax, zmin)),
   invr |-> Over(One, Minus(rmax, rmin)),
   invphi |-> Over(One, Minus(phimax, phimin)),
   scale |-> scale, field |-> field]

Samples(rows) == [i \in 1..3 |-> [k \in 1..8 |-> Num(rows[i][k])]]

\* Corner samples of the three components (Bz, Br, Bphi), corner 0..7.
FieldA ==
  Samples(<< <<1, 2, 4, 7, -3, 5, 0, -6>>,
             <<2, -1, 3, 0, 5, -4, 1, 6>>,
             <<-2, 3, 1, -5, 4, 0, 7, -1>> >>)

FieldB ==
  Samples(<< <<0, 1, -2, 3, 5, -1, 2, 4>>,
             <<3, 3, 3, 3, 3, 3, 3, 3>>,
             <<1, 0, 0, 2, -4, 6, -3, 0>> >>)

\* A field that is continuous on the axis r = 0 when the cell starts there:
\* Bz depends on z and r only, Br grows from 0 at rmin, Bphi is 0.
FieldC ==
  Samples(<< <<1, 1, 4, 4, -3, -3, 0, 0>>,
             <<0, 0, 3, 3, 0, 0, 3, 3>>,
             <<0, 0, 0, 0, 0, 0, 0, 0>> >>)

Fields == {FieldA, FieldB}

\* Cells: z in [0,2], r in [0,3], phi in [0, 3/8 turn], scale 2; and
\* z in [-1,2], r in [1,3], phi in [1/4 turn, 5/8 turn], scale -1/2.
Caches ==
  {MakeCache(Num(0), Num(2), Num(0), Num(3), Num(0), Num(3), Num(2), f)
     : f \in Fields \cup {FieldC}}
  \cup
  {MakeCache(Num(-1), Num(2), Num(1), Num(3), Num(2), Num(5), Rat(-1, 2), f)
     : f \in Fields}

ZVals == {Num(k) : k \in -1..MaxZ}

RVals == {Num(k) : k \in -1..MaxR}

PhiVals == {Num(-3), Num(0), Num(2), Num(3)}

XVals == {Num(k) : k \in -1..MaxX}

YVals == {Num(0), Num(1)}

\* What a caller passes: the point, its r and phi, and whether deriv is a
\* buffer (TRUE) or null (FALSE).
Queries ==
  {[xyz |-> <<x, y, z>>, r |-> r, phi |-> phi, wantDeriv |-> d]
     : x \in XVals, y \in YVals, z \in ZVals, r \in RVals, phi \in PhiVals,
       d \in BOOLEAN}

\* A buffer of n doubles nothing has been written to yet.
Junk(n) == [i \in 1..n |-> NaN]

NoLoc ==
  [w |-> [fz |-> NaN, gz |-> NaN, fr |-> NaN, gr |-> NaN,
          fphi |-> NaN, gphi |-> NaN],
   Bzrphi |-> Junk(3), invr |-> NaN, c |-> NaN, s |-> NaN,
   divided |-> FALSE, dBdz |-> <<>>, dBdr |-> <<>>, dBdphi |-> <<>>]

----------------------------------------------------------------------------
(* The state machine: the caller of getB_test.cxx, holding one filled      *)
(* cache, one point, the field buffer bxyz[3] and the derivative buffer,   *)
(* calls getB, getBVec, getBAutoVec and getBBothVec in this order on the   *)
(* same buffers.  pc is the call it is about to make; std keeps what the   *)
(* scalar reference getB wrote, the values the other three are compared to.*)
(* Before the first call the buffers hold nothing the kernel may rely on:  *)
(* every element is NaN.                                                   *)

Init ==
  /\ cache \in Caches
  /\ args \in Queries
  /\ pc = "getB"
  /\ B = Junk(3)
  /\ deriv = Junk(9)
  /\ loc = NoLoc
  /\ std = [B |-> Junk(3), deriv |-> Junk(9)]

\* Call for a kernel that keeps its scaled samples in the cache object.
Call_WritesCache(res, next) ==
  /\ B' = res.B
  /\ deriv' = IF args.wantDeriv THEN res.deriv ELSE deriv
  /\ loc' = res.loc
  /\ pc' = next
  /\ cache' = [cache EXCEPT !.field =
                 [i \in 1..3 |-> [k \in 1..8 |-> Times(cache.scale, @[i][k])]],
               !.scale = One]
  /\ UNCHANGED args

\* Call for a kernel that stores its derivative result whether or not deriv
\* is null.
Call_AlwaysWritesDeriv(res, next) ==
  /\ B' = res.B
  /\ deriv' = res.deriv
  /\ loc' = res.loc
  /\ pc' = next
  /\ UNCHANGED <<cache, args>>

\* The effect of one call: B is written, deriv only when it is not null.
Call(res, next) ==
  /\ B' = res.B
  /\ deriv' = IF args.wantDeriv THEN res.deriv ELSE deriv
  /\ loc' = res.loc
  /\ pc' = next
  /\ UNCHANGED <<cache, args>>

GetB ==
  /\ pc = "getB"
  /\ Call(getB(cache, args), "getBVec")
  /\ std' = [B |-> B', deriv |-> deriv']

GetBVec ==
  /\ pc = "getBVec"
  /\ Call(getBVec(cache, args), "getBAutoVec")
  /\ UNCHANGED std

GetBAutoVec ==
  /\ pc = "getBAutoVec"
  /\ Call(getBAutoVec(cache, args), "getBBothVec")
  /\ UNCHANGED std

GetBBothVec ==
  /\ pc = "getBBothVec"
  /\ Call(getBBothVec(cache, args), "done")
  /\ UNCHANGED std

Next == GetB \/ GetBVec \/ GetBAutoVec \/ GetBBothVec

Spec == Init /\ [][Next]_vars

\* The points of the loop of the caller: a few of the queries.
LoopQueries ==
  {q \in Queries :
     /\ At(q.xyz, 0) = One /\ At(q.xyz, 1) = One /\ At(q.xyz, 2) = One
     /\ q.r \in {Zero, Num(2)}
     /\ q.phi \in {Num(-3), Num(2)}}

LoopInit ==
  /\ Init
  /\ args \in LoopQueries

\* The next iteration of the caller's loop: a new point, the same cache
\* contents and the same output buffers, still holding what the last calls
\* wrote.
NextPoint ==
  /\ pc = "done"
  /\ args' \in LoopQueries
  /\ pc' = "getB"
  /\ UNCHANGED <<cache, B, deriv, loc, std>>

LoopNext == Next \/ NextPoint

\* The four kernels called point after point on the same buffers.
SpecLoop == LoopInit /\ [][LoopNext]_vars

----------------------------------------------------------------------------
(* Concurrent invocations.  Two threads each run one kernel on the same    *)
(* filled cache, each with its own point and its own B and deriv buffers;  *)
(* here args, pc, B, deriv, loc and std hold one value per thread.  An     *)
(* invocation runs in three steps: the interpolation into its locals       *)
(* (lines 24-48), the rotation written to B (lines 50-64) and the          *)
(* derivatives written to deriv, which read B[0] and B[1] back from the    *)
(* buffer (lines 67-112).  The steps of the threads interleave freely.     *)

Threads == {1, 2}

\* Thread 1 runs the scalar kernel, thread 2 the two-lane one.
KernelOf(t) == IF t = 1 THEN "getB" ELSE "getBVec"

\* Locals declared static: one instance for all invocations.
Frame_Static(t) == 1

\* The locals of the kernel are automatic: one instance per invocation.
Frame(t) == t

ConcInit ==
  /\ cache \in Caches
  /\ args \in [Threads -> LoopQueries]
  /\ pc = [t \in Threads |-> "interp"]
  /\ B = [t \in Threads |-> Junk(3)]
  /\ deriv = [t \in Threads |-> Junk(9)]
  /\ loc = [t \in Threads |-> NoLoc]
  /\ std = [t \in Threads |-> [B |-> Junk(3), deriv |-> Junk(9)]]

\* Lines 24-48: the weights and the interpolated (Bz, Br, Bphi), in locals.
Interpolate(t) ==
  /\ pc[t] = "interp"
  /\ LET a == args[t]
         w == Weights(cache, At(a.xyz, 2), a.r, a.phi)
         Bzrphi == IF KernelOf(t) = "getB" THEN BzrphiScalar(cache, w)
                   ELSE BzrphiVec(cache, w)
     IN loc' = [loc EXCEPT ![Frame(t)] =
                  [NoLoc EXCEPT !.w = w, !.Bzrphi = Bzrphi]]
  /\ pc' = [pc EXCEPT ![t] = "rotate"]
  /\ UNCHANGED <<cache, args, B, deriv, std>>

\* Lines 50-64: invr, c, s and the three writes to B.
WriteB(t) ==
  /\ pc[t] = "rotate"
  /\ LET a == args[t]
         dc == DirCos(At(a.xyz, 0), At(a.xyz, 1), a.r, cache.phimin)
     IN /\ B' = [B EXCEPT ![t] = Rotate(loc[Frame(t)].Bzrphi, dc.c, dc.s)]
        /\ loc' = [loc EXCEPT ![Frame(t)] =
                     [@ EXCEPT !.invr = dc.invr, !.c = dc.c, !.s = dc.s,
                               !.divided = dc.divided]]
  /\ pc' = [pc EXCEPT ![t] = "deriv"]
  /\ UNCHANGED <<cache, args, deriv, std>>

\* Lines 67-112: when deriv is not null, the cylindrical derivatives and the
\* nine writes to deriv, B[0] and B[1] read from the buffer; then the return.
WriteDeriv(t) ==
  /\ pc[t] = "deriv"
  /\ IF args[t].wantDeriv
     THEN LET l == loc[Frame(t)]
              cyl == CylDerivs(cache, l.w)
          IN /\ deriv' = [deriv EXCEPT ![t] =
                            Jacobian(cyl.dBdz, cyl.dBdr, cyl.dBdphi,
                                     l.c, l.s, l.invr, B[t])]
             /\ loc' = [loc EXCEPT ![Frame(t)] =
                          [@ EXCEPT !.dBdz = cyl.dBdz, !.dBdr = cyl.dBdr,
                                    !.dBdphi = cyl.dBdphi]]
     ELSE UNCHANGED <<deriv, loc>>
  /\ pc' = [pc EXCEPT ![t] = "done"]
  /\ UNCHANGED <<cache, args, B, std>>

ConcNext == \E t \in Threads : Interpolate(t) \/ WriteB(t) \/ WriteDeriv(t)

SpecConc == ConcInit /\ [][ConcNext]_vars

----------------------------------------------------------------------------
(* The lane operations of vec.h.  One instantiation vpermute<Indices...> or *)
(* vblend<Indices...> on vectors of N lanes is compiled and called: args    *)
(* holds the operation, N, the index list, the sources and the compiler,    *)
(* B is dst, pc is "call", then "done" after the call or "rejected" when    *)
(* a static_assert fails and there is no program to run.                    *)

\* Numbers of lanes of the vector types instantiated.
LaneCounts == {2, 4}

\* Index values at the edges of the ranges [0, N) and [N, 2N).
IndexVals(N) == {0, N - 1, N, 2 * N - 1, 2 * N}

\* Index lists one shorter than, as long as and one longer than the vector.
IndexLists(N) ==
  UNION {[1..n -> IndexVals(N)] : n \in {N - 1, N, N + 1}}

\* A vector of N lanes with distinct elements base+0 .. base+N-1.
VecFrom(base, N) == [i \in 1..N |-> Num(base + i - 1)]

\* Shuffle with element mask[i] - N taken from the first vector.
Shuffle_SourcesSwapped(v1, v2, mask) ==
  LET N == Len(v1)
  IN [i \in 1..Len(mask) |->
        IF mask[i] % (2 * N) < N THEN At(v2, mask[i] % (2 * N))
        ELSE At(v1, (mask[i] % (2 * N)) - N)]

\* __builtin_shuffle(v1, v2, mask) and __builtin_shufflevector(v1, v2, ...):
\* element i of the result is element mask[i] of the concatenation of v1
\* and v2 (gcc takes the index modulo 2N).
Shuffle(v1, v2, mask) ==
  LET N == Len(v1)
  IN [i \in 1..Len(mask) |->
        IF mask[i] % (2 * N) < N THEN At(v1, mask[i] % (2 * N))
        ELSE At(v2, (mask[i] % (2 * N)) - N)]

\* __builtin_shuffle(src, mask): element i is element mask[i] modulo N of src.
Shuffle1(src, mask) ==
  [i \in 1..Len(mask) |-> At(src, mask[i] % Len(src))]

\* The two static_asserts of vpermute.
PermuteAccepted(N, Indices) ==
  /\ Len(Indices) = N
  /\ \A i \in 1..Len(Indices) : Indices[i] >= 0 /\ Indices[i] < N

\* The two static_asserts of vblend.
BlendAccepted(N, Indices) ==
  /\ Len(Indices) = N
  /\ \A i \in 1..Len(Indices) : Indices[i] >= 0 /\ Indices[i] < 2 * N

VecInit ==
  /\ \E N \in LaneCounts :
       /\ args \in [op : {"vpermute", "vblend"}, N : {N},
                    Indices : IndexLists(N),
                    src1 : {VecFrom(10, N)}, src2 : {VecFrom(20, N)},
                    compiler : {"gcc", "clang"}]
       /\ B = Junk(N)
  /\ pc = "call"
  /\ cache = <<>> /\ deriv = <<>> /\ loc = <<>> /\ std = <<>>

vpermute ==
  /\ pc = "call" /\ args.op = "vpermute"
  /\ IF PermuteAccepted(args.N, args.Indices)
     THEN /\ B' = IF args.compiler = "clang"
                  THEN Shuffle(args.src1, args.src1, args.Indices)
                  ELSE Shuffle1(args.src1, args.Indices)
          /\ pc' = "done"
     ELSE /\ pc' = "rejected"
          /\ UNCHANGED B
  /\ UNCHANGED <<cache, args, deriv, loc, std>>

vblend ==
  /\ pc = "call" /\ args.op = "vblend"
  /\ IF BlendAccepted(args.N, args.Indices)
     THEN /\ B' = Shuffle(args.src1, args.src2, args.Indices)
          /\ pc' = "done"
     ELSE /\ pc' = "rejected"
          /\ UNCHANGED B
  /\ UNCHANGED <<cache, args, deriv, loc, std>>

VecNext == vpermute \/ vblend

SpecVec == VecInit /\ [][VecNext]_vars

----------------------------------------------------------------------------
(* The phi adjustment alone (lines 28-31 and 37): one cache, one phi, and   *)
(* in loc the phi the kernel goes on with and the fphi it computes.         *)

\* Bound of |phi|, in units of 1/8 turn.
MaxPhi == 10

\* phi in steps of 1/16 turn.
PhiSteps == {Rat(k, 2) : k \in (0 - 2 * MaxPhi)..(2 * MaxPhi)}

\* Caches whose phi bin starts at -1/4, 0 or 1/4 turn and is 1/8, 3/8 or a
\* whole turn wide.
PhiCaches ==
  {MakeCache(Zero, One, Zero, One, Num(a), Num(a + w), One, FieldA)
     : a \in {-2, 0, 2}, w \in {1, 3, TwoPi}}

PhiInit ==
  /\ cache \in PhiCaches
  /\ args \in [phi : PhiSteps]
  /\ pc = "call"
  /\ loc = [phi |-> NaN, fphi |-> NaN]
  /\ B = <<>> /\ deriv = <<>> /\ std = <<>>

AdjustAndFrac ==
  /\ pc = "call"
  /\ LET phi == AdjustPhi(args.phi, cache.phimin)
     IN loc' = [phi |-> phi, fphi |-> Frac(phi, cache.phimin, cache.invphi)]
  /\ pc' = "done"
  /\ UNCHANGED <<cache, args, B, deriv, std>>

SpecPhi == PhiInit /\ [][AdjustAndFrac]_vars

----------------------------------------------------------------------------
(* The four calls on points whose x and y are r times the cosine and sine  *)
(* of an angle with rational cosine and sine, so that x/r and y/r are      *)
(* exact direction cosines.                                                *)

\* (cos, sin) of three directions off the axes.
UnitDirs ==
  {<<Rat(3, 5), Rat(4, 5)>>, <<Rat(-4, 5), Rat(3, 5)>>, <<Rat(4, 5), Rat(-3, 5)>>}

UnitRadii == {One, Num(2), Rat(5, 2)}

UnitQueries ==
  {[xyz |-> <<Times(r, d[1]), Times(r, d[2]), z>>, r |-> r, phi |-> phi,
    wantDeriv |-> w]
     : r \in UnitRadii, d \in UnitDirs, z \in ZVals, phi \in PhiVals,
       w \in {TRUE}}

UnitInit ==
  /\ cache \in Caches
  /\ args \in UnitQueries
  /\ pc = "getB"
  /\ B = Junk(3)
  /\ deriv = Junk(9)
  /\ loc = NoLoc
  /\ std = [B |-> Junk(3), deriv |-> Junk(9)]

SpecUnit == UnitInit /\ [][Next]_vars

\* The kernel whose call has just returned.
Last ==
  CASE pc = "getB" -> "none"
    [] pc = "getBVec" -> "getB"
    [] pc = "getBAutoVec" -> "getBVec"
    [] pc = "getBBothVec" -> "getBAutoVec"
    [] pc = "done" -> "getBBothVec"

Returned == pc # "getB"

----------------------------------------------------------------------------
(* What the claims speak of.                                               *)

Comps == 0..2

Called(name) == Last = name

x0 == At(args.xyz, 0)

y0 == At(args.xyz, 1)

z0 == At(args.xyz, 2)

\* The weight of a corner bit: 1 - f for bit 0, f for bit 1.
BitWeight(bit, f) == IF bit = 0 THEN Minus(One, f) ELSE f

\* wz * wr * wphi * field[4*zb + 2*rb + pb]
CornerTerm(field, fz, fr, fphi, zb, rb, pb) ==
  Times(Times(Times(BitWeight(zb, fz), BitWeight(rb, fr)), BitWeight(pb, fphi)),
        At(field, 4 * zb + 2 * rb + pb))

RECURSIVE CornerSumTo(_, _, _, _, _)
CornerSumTo(field, fz, fr, fphi, k) ==
  IF k < 0 THEN Zero
  ELSE Plus(CornerSumTo(field, fz, fr, fphi, k - 1),
            CornerTerm(field, fz, fr, fphi, k \div 4, (k \div 2) % 2, k % 2))

\* scale * sum over the 8 corners of the weighted samples.
CornerSum(field, scale, fz, fr, fphi) ==
  Times(scale, CornerSumTo(field, fz, fr, fphi, 7))

\* The fractional coordinates as the claims write them, from the query.
FzOf(z) == Times(Minus(z, cache.zmin), cache.invz)

FrOf(r) == Times(Minus(r, cache.rmin), cache.invr)

FphiOf(phi) == Times(Minus(phi, cache.phimin), cache.invphi)

\* phi after the single correction of the kernel.
PhiAdjusted == IF Less(args.phi, cache.phimin) THEN Plus(args.phi, Num(TwoPi)) ELSE args.phi

InUnit(f) == ~Less(f, Zero) /\ ~Less(One, f)

Interior(f) == Less(Zero, f) /\ Less(f, One)

\* C1, as stated: after getB, every cylindrical component is the 8-corner
\* weighted sum with fz, fr, fphi computed from the query's z, r and phi.
C1_AsStated ==
  Called("getB") =>
    \A i \in Comps :
      At(loc.Bzrphi, i) =
        CornerSum(At(cache.field, i), cache.scale,
                  FzOf(z0), FrOf(args.r), FphiOf(args.phi))

\* C1, amended: after getB, every cylindrical component is the 8-corner
\* weighted sum with fz, fr from the query's z, r and fphi from the query's
\* phi after the kernel's correction (phi + 2*pi when phi < phimin).
C1_CornerSum ==
  Called("getB") =>
    \A i \in Comps :
      At(loc.Bzrphi, i) =
        CornerSum(At(cache.field, i), cache.scale,
                  FzOf(z0), FrOf(args.r), FphiOf(PhiAdjusted))

\* getB has returned for a point strictly inside the cell whose phi needed
\* the correction, with three non-zero components.
C1_Witness ==
  /\ Called("getB")
  /\ Less(args.phi, cache.phimin)
  /\ Interior(loc.w.fz) /\ Interior(loc.w.fr) /\ InUnit(loc.w.fphi)
  /\ loc.w.fz # loc.w.gz
  /\ \A i \in Comps : At(loc.Bzrphi, i) # Zero

\* C2: whatever getBVec, getBAutoVec and getBBothVec wrote to B, and to deriv
\* when derivatives are requested, equals component by component what the
\* scalar reference getB wrote for the same cache and query (in exact
\* arithmetic, so also within any relative tolerance).
C2_VariantsAgree ==
  (Called("getBVec") \/ Called("getBAutoVec") \/ Called("getBBothVec")) =>
    /\ B = std.B
    /\ args.wantDeriv => deriv = std.deriv

\* getBBothVec, the last of the four, has returned with derivatives, for a
\* point off the cell corners, and no output component is zero.
C2_Witness ==
  /\ Called("getBBothVec")
  /\ args.wantDeriv
  /\ loc.w.fz # loc.w.gz /\ loc.w.fr # loc.w.gr /\ loc.w.fphi # loc.w.gphi
  /\ \A i \in 1..3 : B[i] # Zero /\ Finite(B[i])
  /\ \A i \in 1..9 : deriv[i] # Zero /\ Finite(deriv[i])

IsBit(f) == f = Zero \/ f = One

BitOf(f) == IF f = One THEN 1 ELSE 0

\* C3: at a cell corner, (fz, fr, fphi) = (zb, rb, pb) with bits 0 or 1, every
\* interpolated component i is exactly scale * field[i][4*zb + 2*rb + pb].
C3_CornerExact ==
  (Returned /\ IsBit(loc.w.fz) /\ IsBit(loc.w.fr) /\ IsBit(loc.w.fphi)) =>
    \A i \in Comps :
      At(loc.Bzrphi, i) =
        Times(cache.scale,
              At(At(cache.field, i),
                 4 * BitOf(loc.w.fz) + 2 * BitOf(loc.w.fr) + BitOf(loc.w.fphi)))

\* A kernel has returned at the corner (zb, rb, pb) = (1, 0, 1), sample 5,
\* whose value differs from that of the mirrored corner (1, 1, 0), sample 6.
C3_Witness ==
  /\ Returned
  /\ loc.w.fz = One /\ loc.w.fr = Zero /\ loc.w.fphi = One
  /\ \A i \in {0, 2} : At(At(cache.field, i), 5) # At(At(cache.field, i), 6)
  /\ At(loc.Bzrphi, 0) # Zero

\* The cylindrical components the kernel that has just returned interpolates
\* at the query (z, r, phi) on the cache of the state.
CylAt(z, r, phi) ==
  IF Called("getB") \/ Called("getBAutoVec")
  THEN BzrphiScalar(cache, Weights(cache, z, r, phi))
  ELSE BzrphiVec(cache, Weights(cache, z, r, phi))

\* (1 - t) * v0 + t * v1
Blend(t, v0, v1) == Plus(Times(Minus(One, t), v0), Times(t, v1))

\* C4: along each axis, the other two coordinates held fixed, every
\* interpolated component is the affine blend (1-t)*value(0) + t*value(1) of
\* its values at the two faces of the cell, t being the fractional
\* coordinate of the query along that axis, inside or outside [0,1]; and
\* query points one step before and one step after the query along z or r
\* give values equally spaced around it.
C4_AffineAlongAxes ==
  Returned =>
    LET v == loc.Bzrphi
        vz0 == CylAt(cache.zmin, args.r, args.phi)
        vz1 == CylAt(cache.zmax, args.r, args.phi)
        vr0 == CylAt(z0, cache.rmin, args.phi)
        vr1 == CylAt(z0, cache.rmax, args.phi)
        vp0 == CylAt(z0, args.r, cache.phimin)
        vp1 == CylAt(z0, args.r, cache.phimax)
        vzm == CylAt(Minus(z0, One), args.r, args.phi)
        vzp == CylAt(Plus(z0, One), args.r, args.phi)
        vrm == CylAt(z0, Minus(args.r, One), args.phi)
        vrp == CylAt(z0, Plus(args.r, One), args.phi)
    IN \A i \in Comps :
         /\ At(v, i) = Blend(loc.w.fz, At(vz0, i), At(vz1, i))
         /\ At(v, i) = Blend(loc.w.fr, At(vr0, i), At(vr1, i))
         /\ At(v, i) = Blend(loc.w.fphi, At(vp0, i), At(vp1, i))
         /\ Minus(At(vzp, i), At(v, i)) = Minus(At(v, i), At(vzm, i))
         /\ Minus(At(vrp, i), At(v, i)) = Minus(At(v, i), At(vrm, i))

\* A kernel has returned for a query off the faces of the cell along all three
\* axes, outside [0,1] along z, where the Bz component differs between the
\* two z faces and between the two r faces.
C4_Witness ==
  /\ Returned
  /\ ~IsBit(loc.w.fz) /\ ~IsBit(loc.w.fr) /\ ~IsBit(loc.w.fphi)
  /\ ~InUnit(loc.w.fz)
  /\ At(CylAt(cache.zmin, args.r, args.phi), 0)
       # At(CylAt(cache.zmax, args.r, args.phi), 0)
  /\ At(CylAt(z0, cache.rmin, args.phi), 0)
       # At(CylAt(z0, cache.rmax, args.phi), 0)

Bz == At(loc.Bzrphi, 0)

Br == At(loc.Bzrphi, 1)

Bphi == At(loc.Bzrphi, 2)

\* C5: for r > 0, every variant writes B[0] = Br*c - Bphi*s,
\* B[1] = Br*s + Bphi*c, B[2] = Bz with c = x/r and s = y/r of the supplied
\* point and r.
C5_Rotation ==
  (Returned /\ Greater(args.r, Zero)) =>
    LET c == Over(x0, args.r)
        s == Over(y0, args.r)
    IN /\ At(B, 0) = Minus(Times(Br, c), Times(Bphi, s))
       /\ At(B, 1) = Plus(Times(Br, s), Times(Bphi, c))
       /\ At(B, 2) = Bz

\* A kernel has returned for r > 0 and a point with x # 0 and y # 0 that is
\* not the point of azimuth phi (phi = 0), where Br, Bphi are not zero.
C5_Witness ==
  /\ Returned
  /\ Greater(args.r, One)
  /\ x0 # Zero /\ y0 # Zero
  /\ args.phi = Zero
  /\ Br # Zero /\ Bphi # Zero /\ Bz # Zero
  /\ At(B, 0) # Br /\ At(B, 1) # Bphi

\* C6: for a point with y = 0 and x = r > 0 (c = 1, s = 0) the Cartesian
\* output is (Br, Bphi, Bz): no mixing.
C6_NoMixing ==
  (Returned /\ Greater(args.r, Zero) /\ x0 = args.r /\ y0 = Zero) =>
    B = <<Br, Bphi, Bz>>

\* A kernel has returned for x = r > 0, y = 0 with three different non-zero
\* cylindrical components.
C6_Witness ==
  /\ Returned
  /\ Greater(args.r, Zero) /\ x0 = args.r /\ y0 = Zero
  /\ Br # Zero /\ Bphi # Zero /\ Bz # Zero
  /\ Br # Bphi /\ Br # Bz /\ Bphi # Bz
  /\ B = <<Br, Bphi, Bz>>

\* C7: when r = 0 no variant divides by r; each rotates the field with
\* c = cos(phimin), s = sin(phimin) of the cache, whatever x, y and phi are.
C7_AxisFallback ==
  (Returned /\ args.r = Zero) =>
    LET c == Cos(cache.phimin)
        s == Sin(cache.phimin)
    IN /\ ~loc.divided
       /\ loc.c = c /\ loc.s = s
       /\ At(B, 0) = Minus(Times(Br, c), Times(Bphi, s))
       /\ At(B, 1) = Plus(Times(Br, s), Times(Bphi, c))
       /\ At(B, 2) = Bz

\* A kernel has returned for r = 0 on a cache with phimin a quarter turn
\* (c = 0, s = 1), a point with x # 0, y # 0, and B = (-Bphi, Br, Bz).
C7_Witness ==
  /\ Returned
  /\ args.r = Zero
  /\ cache.phimin = Num(2)
  /\ x0 # Zero /\ y0 # Zero /\ args.phi # cache.phimin
  /\ Br # Zero /\ Bphi # Zero
  /\ B = <<Neg(Bphi), Br, Bz>>

AllFinite(buf, n) == DOMAIN buf = 1..n /\ \A i \in 1..n : Finite(buf[i])

\* C8: whatever the query, r = 0, r < 0 and coordinates outside the cell
\* included, a call that has returned has left three numbers in B and, when
\* derivatives are requested, nine in deriv (no infinity, no NaN: nothing
\* was divided by zero), and it has computed 1/r only if r > 0.
C8_NoFailure ==
  Returned =>
    /\ AllFinite(B, 3)
    /\ args.wantDeriv => AllFinite(deriv, 9)
    /\ loc.divided <=> Greater(args.r, Zero)

\* The four calls have returned, with derivatives, for r = 0 and z outside
\* the cell.
C8_Witness ==
  /\ pc = "done"
  /\ args.wantDeriv
  /\ args.r = Zero
  /\ ~InUnit(loc.w.fz)
  /\ AllFinite(B, 3) /\ AllFinite(deriv, 9)

\* The four calls have returned, with derivatives, for r < 0.
C8_WitnessNegative ==
  /\ pc = "done"
  /\ args.wantDeriv
  /\ Less(args.r, Zero)
  /\ AllFinite(B, 3) /\ AllFinite(deriv, 9)

Clamp(f) == IF Less(f, Zero) THEN Zero ELSE IF Less(One, f) THEN One ELSE f

\* C9: for a query outside the cell the weights are the unclamped fractional
\* coordinates and their complements, and every component is the trilinear
\* polynomial of the 8 corners at these coordinates.
C9_NoClamping ==
  LET fz == FzOf(z0)
      fr == FrOf(args.r)
      fphi == FphiOf(PhiAdjusted)
  IN (Returned /\ ~(InUnit(fz) /\ InUnit(fr) /\ InUnit(fphi))) =>
       /\ loc.w.fz = fz /\ loc.w.gz = Minus(One, fz)
       /\ loc.w.fr = fr /\ loc.w.gr = Minus(One, fr)
       /\ loc.w.fphi = fphi /\ loc.w.gphi = Minus(One, fphi)
       /\ \A i \in Comps :
            At(loc.Bzrphi, i) =
              CornerSum(At(cache.field, i), cache.scale, fz, fr, fphi)

\* A kernel has returned for a query below the cell in z and in r and beyond
\* it in phi (weights below 0 and above 1), where every component differs
\* from its value at the nearest point of the cell.
C9_Witness ==
  /\ Returned
  /\ Less(loc.w.fz, Zero) /\ Less(loc.w.fr, Zero) /\ Less(One, loc.w.fphi)
  /\ Less(One, loc.w.gz) /\ Less(loc.w.gphi, Zero)
  /\ \A i \in Comps :
       At(loc.Bzrphi, i) #
         CornerSum(At(cache.field, i), cache.scale,
                   Clamp(loc.w.fz), Clamp(loc.w.fr), Clamp(loc.w.fphi))

\* The r and phi of a point of the x or y axis, as atan2 and sqrt give them
\* (phi in units of 1/8 turn).
PolarOf(x, y) ==
  CASE y = Zero /\ Less(Zero, x) -> [r |-> x, phi |-> Zero]
    [] y = Zero /\ Less(x, Zero) -> [r |-> Neg(x), phi |-> Num(4)]
    [] x = Zero /\ Less(Zero, y) -> [r |-> y, phi |-> Num(2)]
    [] x = Zero /\ Less(y, Zero) -> [r |-> Neg(y), phi |-> Num(-2)]
    [] x = Zero /\ y = Zero -> [r |-> Zero, phi |-> Zero]

OnAxes(x, y) == x = Zero \/ y = Zero

\* The field getB returns at a point of the x-z or y-z plane, r and phi
\* recomputed from the point.
FieldAt(x, y, z) ==
  getB(cache, [xyz |-> <<x, y, z>>, r |-> PolarOf(x, y).r,
               phi |-> PolarOf(x, y).phi, wantDeriv |-> FALSE]).B

\* The point of the query displaced by d along axis j.
Displaced(j, d) ==
  CASE j = 0 -> <<Plus(x0, d), y0, z0>>
    [] j = 1 -> <<x0, Plus(y0, d), z0>>
    [] j = 2 -> <<x0, y0, Plus(z0, d)>>

\* (B_i(point + eps*e_j) - B_i(point - eps*e_j)) / (2*eps)
CenteredDiff(i, j, eps) ==
  LET p == Displaced(j, eps)
      m == Displaced(j, Neg(eps))
  IN Over(Minus(At(FieldAt(p[1], p[2], p[3]), i),
                At(FieldAt(m[1], m[2], m[3]), i)),
          Times(Num(2), eps))

EpsVals == {Rat(1, 2), Rat(1, 4)}

\* The query is a point of the x or y axis with its own r and phi.
ConsistentQuery ==
  /\ OnAxes(x0, y0)
  /\ args.r = PolarOf(x0, y0).r
  /\ args.phi = PolarOf(x0, y0).phi

\* The axes along which a displaced point stays on the x or y axis.
Directions ==
  {2} \cup (IF y0 = Zero THEN {0} ELSE {}) \cup (IF x0 = Zero THEN {1} ELSE {})

\* Along these axes the field on each side of the point is affine in the
\* displacement (phi, c and s do not change), so the centered difference is
\* a/(2*eps) + b with a, b independent of eps: it is within O(eps) of the
\* Jacobian entry exactly when it equals the entry for every eps.
JacobianMatches ==
  \A eps \in EpsVals : \A j \in Directions : \A i \in Comps :
    At(deriv, 3 * i + j) = CenteredDiff(i, j, eps)

\* C10: the Jacobian written when derivatives are requested matches the
\* centered finite difference of the field along each Cartesian axis, r and
\* phi recomputed from the displaced points, for r > 0 and for r = 0.
C10_FiniteDifference ==
  (Called("getB") /\ args.wantDeriv /\ ConsistentQuery) => JacobianMatches

\* The part of C10 for r > 0.
C10_PositiveR ==
  (Called("getB") /\ args.wantDeriv /\ ConsistentQuery /\ Greater(args.r, Zero))
    => JacobianMatches

\* The part of C10 for r = 0, on the field that is continuous on the axis.
C10_AxisSmoothField ==
  (Called("getB") /\ args.wantDeriv /\ ConsistentQuery /\ args.r = Zero
     /\ cache.field = FieldC /\ cache.rmin = Zero)
    => JacobianMatches

\* getB has returned with derivatives for a point of the x axis with r > 0
\* where the radial and the axial column of the Jacobian are not zero.
C10_PositiveRWitness ==
  /\ Called("getB") /\ args.wantDeriv /\ ConsistentQuery
  /\ Greater(args.r, Zero) /\ y0 = Zero
  /\ \A i \in Comps : At(deriv, 3 * i) # Zero /\ At(deriv, 3 * i + 2) # Zero

\* C11: no kernel call modifies the cache it is invoked on (bounds,
\* reciprocal widths, scale, samples) nor its query arguments; a call writes
\* the B buffer and, only when derivatives are requested, the deriv buffer.
C11_CacheReadOnly ==
  [][/\ cache' = cache
     /\ pc # "done" => /\ args' = args
                       /\ ~args.wantDeriv => deriv' = deriv
                       /\ B' # Junk(3)]_vars

\* The four kernels have been called without derivatives on a point after
\* the first: B holds this point's field and deriv still holds the Jacobian
\* of an earlier point.
C11_Witness ==
  /\ pc = "done"
  /\ ~args.wantDeriv
  /\ deriv # Junk(9)
  /\ cache \in Caches
  /\ \A i \in 1..3 : Finite(B[i])

\* What the invocation of thread t writes when it runs alone, from entry to
\* return.
Alone(t) ==
  IF KernelOf(t) = "getB" THEN getB(cache, args[t]) ELSE getBVec(cache, args[t])

\* C12: under every interleaving of the steps of concurrent invocations that
\* have their own buffers, each invocation writes exactly the outputs it
\* writes when run alone: B once it is past the rotation, deriv on return
\* (nothing when deriv is null).
C12_NoSynchronization ==
  \A t \in Threads :
    /\ pc[t] \in {"deriv", "done"} => B[t] = Alone(t).B
    /\ pc[t] = "done" =>
         IF args[t].wantDeriv THEN deriv[t] = Alone(t).deriv
         ELSE deriv[t] = Junk(9)
    /\ pc[t] # "done" => deriv[t] = Junk(9)

\* Both invocations have returned, with derivatives, for different points
\* with different results.
C12_Witness ==
  /\ \A t \in Threads : pc[t] = "done" /\ args[t].wantDeriv
  /\ args[1] # args[2]
  /\ B[1] # B[2]
  /\ deriv[1] # deriv[2]
  /\ \A t \in Threads : \A i \in 1..9 : Finite(deriv[t][i])

\* The kernel that has just returned, run on the cache and the arguments of
\* the state alone.
Fresh ==
  CASE Called("getB") -> getB(cache, args)
    [] Called("getBVec") -> getBVec(cache, args)
    [] Called("getBAutoVec") -> getBAutoVec(cache, args)
    [] Called("getBBothVec") -> getBBothVec(cache, args)

\* C13: in the loop of calls on one cache and one pair of reused buffers,
\* what a call leaves in B (and in deriv when requested) is determined by
\* the cache and the arguments of that call alone, whatever the earlier
\* calls left in the buffers; getBAutoVec, which repeats the body of getB
\* on the same arguments, leaves what getB left.
C13_Stateless ==
  Returned =>
    /\ B = Fresh.B
    /\ args.wantDeriv => deriv = Fresh.deriv
    /\ Called("getBAutoVec") =>
         /\ B = std.B
         /\ args.wantDeriv => deriv = std.deriv

\* getBAutoVec has returned, repeating the call of getB, on a point after
\* the first: the buffers held the results of earlier calls (deriv still
\* holds the Jacobian of an earlier point).
C13_Witness ==
  /\ Called("getBAutoVec")
  /\ ~args.wantDeriv /\ deriv # Junk(9)
  /\ B = std.B
  /\ \A i \in 1..3 : B[i] # Zero /\ Finite(B[i])

\* getB has returned with derivatives where the Jacobian uses the field
\* just written (r > 0, s # 0, By # 0).
C13_WitnessDeriv ==
  /\ Called("getB") /\ args.wantDeriv
  /\ loc.divided /\ loc.s # Zero /\ B[2] # Zero
  /\ \A i \in 1..9 : Finite(deriv[i])

\* C14: a vblend that produced a result had N indices, all in [0, 2N), and
\* dst[i] is src1[Indices[i]] for an index in [0, N) and src2[Indices[i] - N]
\* for an index in [N, 2N); a vpermute that produced a result had N indices,
\* all in [0, N), and dst[i] is src[Indices[i]]; an instantiation with a
\* wrong number of indices or an index out of range is rejected and dst is
\* never written.
C14_LaneSelection ==
  LET N == args.N
      idx(i) == args.Indices[i + 1]
  IN /\ (pc = "done" /\ args.op = "vblend") =>
          /\ Len(args.Indices) = N /\ Len(B) = N
          /\ \A i \in 0..(N - 1) :
               \/ idx(i) \in 0..(N - 1) /\ At(B, i) = At(args.src1, idx(i))
               \/ idx(i) \in N..(2 * N - 1)
                    /\ At(B, i) = At(args.src2, idx(i) - N)
     /\ (pc = "done" /\ args.op = "vpermute") =>
          /\ Len(args.Indices) = N /\ Len(B) = N
          /\ \A i \in 0..(N - 1) :
               idx(i) \in 0..(N - 1) /\ At(B, i) = At(args.src1, idx(i))
     /\ pc = "rejected" =>
          /\ B = Junk(N)
          /\ \/ Len(args.Indices) # N
             \/ \E i \in 1..Len(args.Indices) :
                  args.Indices[i] \notin
                    0..((IF args.op = "vblend" THEN 2 * N ELSE N) - 1)

\* A vblend on four lanes has returned that took lanes from both sources,
\* out of order.
C14_Witness ==
  /\ pc = "done" /\ args.op = "vblend" /\ args.N = 4
  /\ args.Indices = <<7, 0, 4, 3>>
  /\ B = <<Num(23), Num(10), Num(20), Num(13)>>

Le(a, b) == ~Less(b, a)

\* phi as the kernel goes on with it is inside the bin and fphi is in [0,1].
PhiInsideBin ==
  /\ Le(cache.phimin, loc.phi) /\ Le(loc.phi, cache.phimax)
  /\ InUnit(loc.fphi)

\* C15, as stated: for every phi with phimin - 2*pi <= phi <= phimax the
\* adjusted phi lies inside [phimin, phimax] and fphi is in [0,1].
C15_AsStated ==
  (/\ pc = "done"
   /\ Le(Minus(cache.phimin, Num(TwoPi)), args.phi)
   /\ Le(args.phi, cache.phimax))
    => PhiInsideBin

\* C15, amended: for every phi inside the bin, or inside the bin shifted
\* down by 2*pi, the adjusted phi lies inside [phimin, phimax] and fphi is
\* in [0,1].
C15_PhiInsideBin ==
  (/\ pc = "done"
   /\ \/ Le(cache.phimin, args.phi) /\ Le(args.phi, cache.phimax)
      \/ /\ Le(Minus(cache.phimin, Num(TwoPi)), args.phi)
         /\ Le(args.phi, Minus(cache.phimax, Num(TwoPi))))
    => PhiInsideBin

\* The adjustment has been made for a phi below phimin that lands strictly
\* inside a bin narrower than a turn.
C15_Witness ==
  /\ pc = "done"
  /\ Less(args.phi, cache.phimin)
  /\ Le(args.phi, Minus(cache.phimax, Num(TwoPi)))
  /\ Less(Minus(cache.phimax, cache.phimin), Num(TwoPi))
  /\ loc.phi = Plus(args.phi, Num(TwoPi))
  /\ Interior(loc.fphi)

\* V_j(fz, fr, fphi): the scaled 8-corner interpolated value of component j.
V(j, fz, fr, fphi) == CornerSum(At(cache.field, j), cache.scale, fz, fr, fphi)

\* The cylindrical derivatives the kernel computes at the query (z, r, phi).
CylDerivsAt(z, r, phi) == CylDerivs(cache, Weights(cache, z, r, phi))

\* C16: with derivatives requested, for each component j, dBdz[j], dBdr[j]
\* and dBdphi[j] are invz, invr and invphi times the difference of the
\* scaled interpolated value between the two faces of the bin along that
\* axis, at the fr, fphi (fz, fphi; fz, fr) of the query; and each is the
\* same at a query displaced along its own axis.
C16_AnalyticDerivatives ==
  (Returned /\ args.wantDeriv) =>
    LET fz == loc.w.fz
        fr == loc.w.fr
        fphi == loc.w.fphi
    IN /\ \A j \in Comps :
            /\ At(loc.dBdz, j) =
                 Times(cache.invz, Minus(V(j, One, fr, fphi), V(j, Zero, fr, fphi)))
            /\ At(loc.dBdr, j) =
                 Times(cache.invr, Minus(V(j, fz, One, fphi), V(j, fz, Zero, fphi)))
            /\ At(loc.dBdphi, j) =
                 Times(cache.invphi, Minus(V(j, fz, fr, One), V(j, fz, fr, Zero)))
       /\ CylDerivsAt(Plus(z0, One), args.r, args.phi).dBdz = loc.dBdz
       /\ CylDerivsAt(z0, Plus(args.r, One), args.phi).dBdr = loc.dBdr
       /\ CylDerivsAt(z0, args.r, Plus(PhiAdjusted, One)).dBdphi = loc.dBdphi

\* A kernel has returned with derivatives for a point strictly inside the
\* bin, off its centre planes, where none of the nine cylindrical
\* derivatives is zero.
C16_Witness ==
  /\ Returned /\ args.wantDeriv
  /\ Interior(loc.w.fz) /\ Interior(loc.w.fr) /\ Interior(loc.w.fphi)
  /\ loc.w.fr # loc.w.gr /\ loc.w.fphi # loc.w.gphi
  /\ \A j \in Comps :
       At(loc.dBdz, j) # Zero /\ At(loc.dBdr, j) # Zero /\ At(loc.dBdphi, j) # Zero

\* d/dx and d/dy of cylindrical component j by the chain rule, with
\* dr/dx = c, dphi/dx = -s/r, dr/dy = s, dphi/dy = c/r.
DxCyl(j) ==
  Minus(Times(loc.c, At(loc.dBdr, j)),
        Times(Over(loc.s, args.r), At(loc.dBdphi, j)))

DyCyl(j) ==
  Plus(Times(loc.s, At(loc.dBdr, j)),
       Times(Over(loc.c, args.r), At(loc.dBdphi, j)))

\* The matrix d(B_i)/d(x_j), row by row, of Bx = Br*c - Bphi*s,
\* By = Br*s + Bphi*c, Bz.
ChainRule ==
  LET c == loc.c
      s == loc.s
      sr == Over(loc.s, args.r)
      cr == Over(loc.c, args.r)
  IN << Plus(Minus(Times(c, DxCyl(1)), Times(s, DxCyl(2))), Times(sr, At(B, 1))),
        Minus(Minus(Times(c, DyCyl(1)), Times(s, DyCyl(2))), Times(cr, At(B, 1))),
        Minus(Times(c, At(loc.dBdz, 1)), Times(s, At(loc.dBdz, 2))),
        Minus(Plus(Times(s, DxCyl(1)), Times(c, DxCyl(2))), Times(sr, At(B, 0))),
        Plus(Plus(Times(s, DyCyl(1)), Times(c, DyCyl(2))), Times(cr, At(B, 0))),
        Plus(Times(s, At(loc.dBdz, 1)), Times(c, At(loc.dBdz, 2))),
        DxCyl(0),
        DyCyl(0),
        At(loc.dBdz, 0) >>

\* C17: with derivatives requested and r > 0, the nine values every variant
\* writes to deriv are the row-major matrix d(B_i)/d(x_j) of the chain rule:
\* rotated combinations of dBdr and dBdphi/r plus (s/r)*By, -(c/r)*By in row
\* Bx and -(s/r)*Bx, (c/r)*Bx in row By, and the rotated dBdz in column z.
C17_ChainRule ==
  (Returned /\ args.wantDeriv /\ Greater(args.r, Zero)) => deriv = ChainRule

\* A kernel has returned with derivatives for r > 0, c and s both non-zero,
\* Bx and By non-zero, and nine finite non-zero entries.
C17_Witness ==
  /\ Returned /\ args.wantDeriv /\ Greater(args.r, Zero)
  /\ loc.c # Zero /\ loc.s # Zero
  /\ At(B, 0) # Zero /\ At(B, 1) # Zero
  /\ \A i \in 1..9 : deriv[i] # Zero /\ Finite(deriv[i])
  /\ \A j \in Comps : At(loc.dBdphi, j) # Zero

\* The kernel that has just returned, run on the same cache and query with
\* deriv a buffer (d = TRUE) or null (d = FALSE).
FreshWith(d) ==
  LET a == [args EXCEPT !.wantDeriv = d]
  IN CASE Called("getB") -> getB(cache, a)
       [] Called("getBVec") -> getBVec(cache, a)
       [] Called("getBAutoVec") -> getBAutoVec(cache, a)
       [] Called("getBBothVec") -> getBBothVec(cache, a)

\* C18: the B a kernel writes is the B the same kernel writes for the same
\* cache and query with deriv null and with deriv not null; and when deriv
\* is null no cylindrical derivative is computed and the derivative buffer
\* of the caller is left as it was.
C18_DerivOptional ==
  Returned =>
    /\ B = FreshWith(TRUE).B
    /\ B = FreshWith(FALSE).B
    /\ ~args.wantDeriv =>
         /\ deriv = Junk(9)
         /\ loc.dBdz = <<>> /\ loc.dBdr = <<>> /\ loc.dBdphi = <<>>
         /\ FreshWith(FALSE).deriv = <<>>

\* The four kernels have been called with deriv null: B holds a field with
\* three non-zero components, nothing was ever written to the derivative
\* buffer, and a call with derivatives would have written non-zero entries.
C18_Witness ==
  /\ pc = "done"
  /\ ~args.wantDeriv
  /\ deriv = Junk(9)
  /\ \A i \in 1..3 : B[i] # Zero /\ Finite(B[i])
  /\ \A i \in 1..9 : FreshWith(TRUE).deriv[i] # Zero

\* Eight samples equal to 1.
Ones == [k \in 1..8 |-> One]

\* All eight samples of component j of the cache are the same value.
Uniform(j) == \A k \in 1..8 : At(cache.field, j)[k] = At(cache.field, j)[1]

\* C19: the 8 products of the weights of a call sum to 1, inside or outside
\* the bin, in the scalar and in the two-lane form; a component whose 8
\* samples all equal v is interpolated to scale*v and its dBdz, dBdr and
\* dBdphi are 0.
C19_WeightsSumToOne ==
  Returned =>
    /\ CornerSumTo(Ones, loc.w.fz, loc.w.fr, loc.w.fphi, 7) = One
    /\ Interp(Ones, One, loc.w) = One
    /\ InterpVec(Ones, One, loc.w) = One
    /\ \A j \in Comps :
         Uniform(j) =>
           /\ At(loc.Bzrphi, j) = Times(cache.scale, At(cache.field, j)[1])
           /\ args.wantDeriv =>
                /\ At(loc.dBdz, j) = Zero
                /\ At(loc.dBdr, j) = Zero
                /\ At(loc.dBdphi, j) = Zero

\* A kernel has returned with derivatives for a point outside the bin along
\* all three axes, on a cache whose Br samples all have one non-zero value.
C19_Witness ==
  /\ Returned /\ args.wantDeriv
  /\ ~InUnit(loc.w.fz) /\ ~InUnit(loc.w.fr) /\ ~InUnit(loc.w.fphi)
  /\ Uniform(1) /\ At(cache.field, 1)[1] # Zero
  /\ At(loc.Bzrphi, 1) = Times(cache.scale, At(cache.field, 1)[1])
  /\ ~Uniform(0)

\* The kernel that has just returned, run on the same cache and query with
\* x and y replaced.
FreshAt(x, y) ==
  LET a == [args EXCEPT !.xyz = <<x, y, z0>>]
  IN CASE Called("getB") -> getB(cache, a)
       [] Called("getBVec") -> getBVec(cache, a)
       [] Called("getBAutoVec") -> getBAutoVec(cache, a)
       [] Called("getBBothVec") -> getBBothVec(cache, a)

\* C20: for r = 0 and for r < 0 the kernel takes the branch that does not
\* divide: invr = 0, c = cos(phimin), s = sin(phimin); x and y have no
\* effect on B or deriv; and the x and y columns of deriv are the rotated
\* dBdr alone, without dBdphi and without B.
C20_DegenerateBranch ==
  (Returned /\ ~Greater(args.r, Zero)) =>
    LET c == Cos(cache.phimin)
        s == Sin(cache.phimin)
        cc == Times(c, c)
        cs == Times(c, s)
        ss == Times(s, s)
        dBdr == loc.dBdr
        other == FreshAt(Plus(x0, Num(2)), Minus(y0, Num(3)))
    IN /\ ~loc.divided /\ loc.invr = Zero
       /\ loc.c = c /\ loc.s = s
       /\ other.B = B
       /\ args.wantDeriv =>
            /\ other.deriv = deriv
            /\ At(deriv, 0) = Minus(Times(cc, At(dBdr, 1)), Times(cs, At(dBdr, 2)))
            /\ At(deriv, 1) = Minus(Times(cs, At(dBdr, 1)), Times(ss, At(dBdr, 2)))
            /\ At(deriv, 3) = Plus(Times(cs, At(dBdr, 1)), Times(cc, At(dBdr, 2)))
            /\ At(deriv, 4) = Plus(Times(ss, At(dBdr, 1)), Times(cs, At(dBdr, 2)))
            /\ At(deriv, 6) = Times(c, At(dBdr, 0))
            /\ At(deriv, 7) = Times(s, At(dBdr, 0))

\* A kernel has returned with derivatives for a negative r and non-zero x
\* and y, where B and the three dBdphi are not zero.
C20_Witness ==
  /\ Returned /\ args.wantDeriv
  /\ Less(args.r, Zero)
  /\ x0 # Zero /\ y0 # Zero
  /\ At(B, 0) # Zero /\ At(B, 1) # Zero
  /\ \A j \in Comps : At(loc.dBdphi, j) # Zero /\ At(loc.dBdr, j) # Zero
  /\ loc.invr = Zero

\* c*c + s*s = 1 for the direction cosines of the call.
UnitDirection == Plus(Times(loc.c, loc.c), Times(loc.s, loc.s)) = One

\* C21: with derivatives requested, r > 0 and c*c + s*s = 1, the trace of the
\* Cartesian Jacobian is the cylindrical divergence
\* dBdr[1] + (dBdphi[2] + Br)/r + dBdz[0], and deriv[3] - deriv[1] is the
\* axial curl dBdr[2] + (Bphi - dBdphi[1])/r, Br and Bphi being the
\* interpolated cylindrical components.
C21_DivergenceAndCurl ==
  (Returned /\ args.wantDeriv /\ Greater(args.r, Zero) /\ UnitDirection) =>
    /\ Plus(Plus(At(deriv, 0), At(deriv, 4)), At(deriv, 8)) =
         Plus(Plus(At(loc.dBdr, 1),
                   Over(Plus(At(loc.dBdphi, 2), At(loc.Bzrphi, 1)), args.r)),
              At(loc.dBdz, 0))
    /\ Minus(At(deriv, 3), At(deriv, 1)) =
         Plus(At(loc.dBdr, 2),
              Over(Minus(At(loc.Bzrphi, 2), At(loc.dBdphi, 1)), args.r))

\* A kernel has returned with derivatives for r > 0 and a direction off the
\* axes (c and s non-zero, c*c + s*s = 1), where Br, Bphi and all nine
\* entries of deriv are non-zero.
C21_Witness ==
  /\ Returned /\ args.wantDeriv /\ Greater(args.r, Zero) /\ UnitDirection
  /\ loc.c # Zero /\ loc.s # Zero
  /\ At(loc.Bzrphi, 1) # Zero /\ At(loc.Bzrphi, 2) # Zero
  /\ \A i \in 1..9 : deriv[i] # Zero /\ Finite(deriv[i])
  /\ \A j \in Comps : At(loc.dBdphi, j) # Zero

====
